---- MODULE Spec2Model ----
(***************************************************************************)
(* Model of src/three_dimensional/vector3.rs: the Vector3<T> value type,   *)
(* its named constants, its algebraic operations and the conversions from  *)
(* Cylindrical<T> and Spherical<T>.                                        *)
(*                                                                         *)
(* Numbers.  T is f32 or f64.  The algebraic operations are exercised on   *)
(* vectors with small integer components; every sum and product of such    *)
(* values is an exactly representable float, so an Integer stands for the  *)
(* float of that value (+0.0 and -0.0 compare equal in Rust and are both   *)
(* the Integer 0).  NaN and the infinities are outside the model.          *)
(*                                                                         *)
(* Angles.  An angle field holds one of the floats 0, FRAC_PI_2 and        *)
(* PI = 2*FRAC_PI_2; it is stored as its step k in 0..2 (k*FRAC_PI_2).     *)
(* FRAC_PI_2 and PI are not the reals pi/2 and pi, so sin_cos of them is   *)
(* not (1,0) and (0,-1): cos(FRAC_PI_2) is a residue u of about 4.4e-8     *)
(* (f32, negative) or 6.1e-17 (f64, positive) and sin(PI) is 2u, the       *)
(* 8.742278e-8 of the FIXME at vector3.rs:205.  A value computed from a    *)
(* sine or cosine is therefore kept as w + e1*u + e2*u^2, the record       *)
(* [w, e1, e2] of Integers; the rounding of a product in its last place is *)
(* not modelled (it never turns a non-zero product into zero here).        *)
(***************************************************************************)
EXTENDS Integers, FiniteSets, Sequences, TLC

VARIABLES kind, self, other, cyl, sph, op, ret

vars == <<kind, self, other, cyl, sph, op, ret>>

(* ---- bounds of the exploration ---- *)
MaxCoord == 2
MaxRadius == 2

Coords == (0 - MaxCoord)..MaxCoord
Radii == (0 - MaxRadius)..MaxRadius
Heights == {0 - 1, 0, 5}

(* TrigConsts::FRAC_PI_2 and TrigConsts::PI, as steps *)
FRAC_PI_2 == 1

PI == 2

AngleSteps == {0, FRAC_PI_2, PI}

(* impl_3d!(f32, f64) *)
Kinds == {"f32", "f64"}

(* ---- the base struct ---- *)
Vector3(x, y, z) == [x |-> x, y |-> y, z |-> z]

Cylindrical(radius, azimuth, height) ==
    [radius |-> radius, azimuth |-> azimuth, height |-> height]

Spherical(radius, azimuthal_angle, polar_angle) ==
    [radius |-> radius, azimuthal_angle |-> azimuthal_angle, polar_angle |-> polar_angle]

(* ---- ThreeDimensionalConsts ---- *)
ORIGIN == Vector3(0, 0, 0)

UP == Vector3(0, 0, 1)

DOWN_Flipped == Vector3(0, 0, 1)

DOWN == Vector3(0, 0, 0 - 1)

FORWARD == Vector3(0, 1, 0)

BACK == Vector3(0, 0 - 1, 0)

LEFT == Vector3(0 - 1, 0, 0)

RIGHT == Vector3(1, 0, 0)

(* the table one expansion of impl_3d! gives the kind var *)
impl_3d(var) ==
    [ORIGIN |-> ORIGIN, UP |-> UP, DOWN |-> DOWN, FORWARD |-> FORWARD,
     BACK |-> BACK, LEFT |-> LEFT, RIGHT |-> RIGHT]

(* ---- Magnitude, Dot, Cross3D, Positional ---- *)
quick_magnitude(v) == v.x * v.x + v.y * v.y + v.z * v.z

IsSquare(n) == \E k \in 0..n : k * k = n

(* f32/f64 sqrt on a perfect square: the exact root *)
sqrt(n) == CHOOSE k \in 0..n : k * k = n

magnitude(v) == sqrt(quick_magnitude(v))

dot_NoZ(a, b) == a.x * b.x + a.y * b.y

dot(a, b) == a.x * b.x + a.y * b.y + a.z * b.z

cross(a, b) ==
    Vector3(a.y * b.z - a.z * b.y,
            a.z * b.x - a.x * b.z,
            a.x * b.y - a.y - b.x)

(* the quotient handed to acos, where it is an exact float *)
AcosArg(a, b) == dot(a, b) \div (magnitude(a) * magnitude(b))

AngleExact(a, b) ==
    /\ IsSquare(quick_magnitude(a))
    /\ IsSquare(quick_magnitude(b))
    /\ magnitude(a) * magnitude(b) # 0
    /\ dot(a, b) % (magnitude(a) * magnitude(b)) = 0

(* T::acos at 1, 0 and -1: the floats 0, FRAC_PI_2 and PI *)
acos(c) == IF c = 1 THEN 0 ELSE IF c = 0 THEN FRAC_PI_2 ELSE PI

angle_to(a, b) == acos(AcosArg(a, b))

(* ---- Neg, Add, Sub ---- *)
neg_KeepZ(v) == Vector3(0 - v.x, 0 - v.y, v.z)

neg(v) == Vector3(0 - v.x, 0 - v.y, 0 - v.z)

add(a, b) == Vector3(a.x + b.x, a.y + b.y, a.z + b.z)

sub(a, b) == Vector3(a.x - b.x, a.y - b.y, a.z - b.z)

(* ---- derive(PartialOrd) ---- *)
(* T::partial_cmp on two floats that are not NaN *)
float_partial_cmp(p, q) ==
    IF p < q THEN "Less" ELSE IF p > q THEN "Greater" ELSE "Equal"

partial_cmp_YFirst(a, b) ==
    LET cy == float_partial_cmp(a.y, b.y)
        cx == float_partial_cmp(a.x, b.x)
    IN  IF cy # "Equal" THEN cy
        ELSE IF cx # "Equal" THEN cx
        ELSE float_partial_cmp(a.z, b.z)

(* the derived comparison: the fields in declaration order, the first one *)
(* that is not Equal decides                                              *)
partial_cmp(a, b) ==
    LET cx == float_partial_cmp(a.x, b.x)
        cy == float_partial_cmp(a.y, b.y)
    IN  IF cx # "Equal" THEN cx
        ELSE IF cy # "Equal" THEN cy
        ELSE float_partial_cmp(a.z, b.z)

(* ---- values computed from sines and cosines ---- *)
Exact(n) == [w |-> n, e1 |-> 0, e2 |-> 0]

Mul(p, q) ==
    [w  |-> p.w * q.w,
     e1 |-> p.w * q.e1 + p.e1 * q.w,
     e2 |-> p.w * q.e2 + p.e1 * q.e1 + p.e2 * q.w]

(* sign of cos(FRAC_PI_2): FRAC_PI_2 is above pi/2 in f32, below it in f64 *)
ResidueSign(k) == IF k = "f32" THEN 0 - 1 ELSE 1

(* T::sin_cos at the step s, the pair <<sin, cos>> *)
sin_cos(k, s) ==
    IF s = 0 THEN <<Exact(0), Exact(1)>>
    ELSE IF s = FRAC_PI_2 THEN <<Exact(1), [w |-> 0, e1 |-> ResidueSign(k), e2 |-> 0]>>
    ELSE <<[w |-> 0, e1 |-> 2 * ResidueSign(k), e2 |-> 0], Exact(0 - 1)>>

(* ---- From<Cylindrical<T>>, From<&Cylindrical<T>> ---- *)
from_cyl_RadiusZ(k, c) ==
    LET sc == sin_cos(k, c.azimuth)
    IN  Vector3(Mul(Exact(c.radius), sc[2]),
                Mul(Exact(c.radius), sc[1]),
                Exact(c.radius))

from_cyl(k, c) ==
    LET sc == sin_cos(k, c.azimuth)
    IN  Vector3(Mul(Exact(c.radius), sc[2]),
                Mul(Exact(c.radius), sc[1]),
                Exact(c.height))

from_cyl_ref_Swapped(k, c) ==
    LET sc == sin_cos(k, c.azimuth)
    IN  Vector3(Mul(Exact(c.radius), sc[1]),
                Mul(Exact(c.radius), sc[2]),
                Exact(c.height))

from_cyl_ref(k, c) ==
    LET sc == sin_cos(k, c.azimuth)
    IN  Vector3(Mul(Exact(c.radius), sc[2]),
                Mul(Exact(c.radius), sc[1]),
                Exact(c.height))

(* ---- From<Spherical<T>>, From<&Spherical<T>> ---- *)
from_sph_ref_Swapped(k, s) ==
    LET az  == sin_cos(k, s.azimuthal_angle)
        pol == sin_cos(k, s.polar_angle)
    IN  Vector3(Mul(Mul(Exact(s.radius), pol[1]), az[1]),
                Mul(Mul(Exact(s.radius), pol[1]), az[2]),
                Mul(Exact(s.radius), pol[2]))

from_sph_ref(k, s) ==
    LET az  == sin_cos(k, s.azimuthal_angle)
        pol == sin_cos(k, s.polar_angle)
    IN  Vector3(Mul(Mul(Exact(s.radius), pol[1]), az[2]),
                Mul(Mul(Exact(s.radius), pol[1]), az[1]),
                Mul(Exact(s.radius), pol[2]))

from_sph(k, s) == from_sph_ref(k, s)

(* ---- the state: the operands of a call, the call made, its result ---- *)
Vectors == {Vector3(x, y, z) : x \in Coords, y \in Coords, z \in Coords}

Cylindricals ==
    {Cylindrical(r, a, h) : r \in Radii, a \in AngleSteps, h \in Heights}

Sphericals ==
    {Spherical(r, a, p) : r \in Radii, a \in AngleSteps, p \in AngleSteps}

Init ==
    /\ kind \in Kinds
    /\ self \in Vectors
    /\ other \in Vectors
    /\ cyl = Cylindrical(0, 0, 0)
    /\ sph = Spherical(0, 0, 0)
    /\ op = "none"
    /\ ret = "none"

InitConv ==
    /\ kind \in Kinds
    /\ self = ORIGIN
    /\ other = ORIGIN
    /\ cyl \in Cylindricals
    /\ sph \in Sphericals
    /\ op = "none"
    /\ ret = "none"

Call(name, value) ==
    /\ op' = name
    /\ ret' = value
    /\ UNCHANGED <<kind, self, other, cyl, sph>>

QuickMagnitude == Call("quick_magnitude", quick_magnitude(self))

Dot == Call("dot", dot(self, other))

Cross == Call("cross", cross(self, other))

AngleTo == AngleExact(self, other) /\ Call("angle_to", angle_to(self, other))

Neg == Call("neg", neg(self))

Add == Call("add", add(self, other))

Sub == Call("sub", sub(self, other))

PartialCmp == Call("partial_cmp", partial_cmp(self, other))

FromCylindrical == Call("from_cyl", from_cyl(kind, cyl))

FromCylindricalRef == Call("from_cyl_ref", from_cyl_ref(kind, cyl))

FromSpherical == Call("from_sph", from_sph(kind, sph))

FromSphericalRef == Call("from_sph_ref", from_sph_ref(kind, sph))

Next ==
    \/ QuickMagnitude
    \/ Dot
    \/ Cross
    \/ AngleTo
    \/ Neg
    \/ Add
    \/ Sub
    \/ PartialCmp

NextConv ==
    \/ FromCylindrical
    \/ FromCylindricalRef
    \/ FromSpherical
    \/ FromSphericalRef

Spec == Init /\ [][Next]_vars

SpecConv == InitConv /\ [][NextConv]_vars

(* ======================== the claims ======================== *)

StandardCross(a, b) ==
    Vector3(a.y * b.z - a.z * b.y,
            a.z * b.x - a.x * b.z,
            a.x * b.y - a.y * b.x)

(* C1: cross(a,b) is exactly (y1*z2 - z1*y2, z1*x2 - x1*z2, x1*y2 - y1*x2). *)
C1_CrossIsStandard == op = "cross" => ret = StandardCross(self, other)

(* C2: the cross product is perpendicular to its first operand: *)
(* dot(a, cross(a,b)) = 0.                                       *)
C2_CrossPerpendicular == op = "cross" => dot(self, ret) = 0

(* C3: the cross product is anticommutative: cross(a,b) = -cross(b,a). *)
C3_CrossAnticommutative == op = "cross" => ret = neg(cross(other, self))

Disagree(a, b) ==
    \E f \in {"x", "y", "z"} : \E g \in {"x", "y", "z"} : a[f] < b[f] /\ a[g] > b[g]

(* C4 as claimed: partial_cmp reports Less (Greater) only when every       *)
(* component is <= (>=), and vectors whose component relations disagree    *)
(* are incomparable.                                                       *)
C4_ComponentwiseOrder ==
    op = "partial_cmp" =>
        /\ ret = "Less" => self.x <= other.x /\ self.y <= other.y /\ self.z <= other.z
        /\ ret = "Greater" => self.x >= other.x /\ self.y >= other.y /\ self.z >= other.z
        /\ Disagree(self, other) => ret \notin {"Less", "Equal", "Greater"}

LexLess(a, b) ==
    \/ a.x < b.x
    \/ a.x = b.x /\ a.y < b.y
    \/ a.x = b.x /\ a.y = b.y /\ a.z < b.z

(* C4 amended: on vectors without NaN components partial_cmp is the        *)
(* lexicographic order on (x, y, z): the first component at which the      *)
(* vectors differ decides, so any two such vectors are comparable, also    *)
(* when their component relations disagree.                                *)
C4_LexicographicOrder ==
    op = "partial_cmp" =>
        /\ ret \in {"Less", "Equal", "Greater"}
        /\ ret = "Less" <=> LexLess(self, other)
        /\ ret = "Greater" <=> LexLess(other, self)
        /\ ret = "Equal" <=> self = other

C4_Witness ==
    /\ op = "partial_cmp"
    /\ self.x < other.x
    /\ self.y > other.y
    /\ ret = "Less"

(* C5: for the conversions from Cylindrical and from Spherical the         *)
(* by-value and the by-reference implementation return the same result    *)
(* for the same input, and the call leaves its input as it was.            *)
C5_ValueAndRefAgree ==
    [][/\ op' = "from_cyl" => ret' = from_cyl_ref(kind, cyl) /\ cyl' = cyl
       /\ op' = "from_cyl_ref" => ret' = from_cyl(kind, cyl) /\ cyl' = cyl
       /\ op' = "from_sph" => ret' = from_sph_ref(kind, sph) /\ sph' = sph
       /\ op' = "from_sph_ref" => ret' = from_sph(kind, sph) /\ sph' = sph]_vars

C5_Witness ==
    /\ op = "from_cyl"
    /\ cyl.radius = 2
    /\ cyl.azimuth = FRAC_PI_2
    /\ ret.x # ret.y

(* C6: angle_to(UP, p) is FRAC_PI_2 for p in FORWARD, BACK, LEFT, RIGHT    *)
(* and angle_to(UP, DOWN) is PI: the value handed to acos is exactly 0     *)
(* for the four horizontal directions and exactly -1 for DOWN.             *)
C6_AngleScenarios ==
    (op = "angle_to" /\ self = UP) =>
        /\ other \in {FORWARD, BACK, LEFT, RIGHT} =>
               AcosArg(self, other) = 0 /\ ret = FRAC_PI_2
        /\ other = DOWN => AcosArg(self, other) = 0 - 1 /\ ret = PI

C6_Witness == op = "angle_to" /\ self = UP /\ other = DOWN /\ ret = PI

SinOf(k, s) == sin_cos(k, s)[1]

CosOf(k, s) == sin_cos(k, s)[2]

SphericalFormula ==
    /\ ret.x = Mul(Mul(Exact(sph.radius), SinOf(kind, sph.polar_angle)),
                   CosOf(kind, sph.azimuthal_angle))
    /\ ret.y = Mul(Mul(Exact(sph.radius), SinOf(kind, sph.polar_angle)),
                   SinOf(kind, sph.azimuthal_angle))
    /\ ret.z = Mul(Exact(sph.radius), CosOf(kind, sph.polar_angle))

(* C7 as claimed: x = r*sin(polar)*cos(azimuthal), y = r*sin(polar)*       *)
(* sin(azimuthal), z = r*cos(polar); radius=1, polar=0 gives (0,0,1) for   *)
(* every azimuthal angle, and radius=1, polar=FRAC_PI_2, azimuthal=0 gives *)
(* exactly (1,0,0).                                                        *)
C7_SphericalExact ==
    op \in {"from_sph", "from_sph_ref"} =>
        /\ SphericalFormula
        /\ (sph.radius = 1 /\ sph.polar_angle = 0) =>
               ret = Vector3(Exact(0), Exact(0), Exact(1))
        /\ (sph.radius = 1 /\ sph.polar_angle = FRAC_PI_2 /\ sph.azimuthal_angle = 0) =>
               ret = Vector3(Exact(1), Exact(0), Exact(0))

(* C7 amended: the three formulas hold; radius=1, polar=0 gives exactly    *)
(* (0,0,1) for every azimuthal angle; radius=1, polar=FRAC_PI_2,           *)
(* azimuthal=0 gives x = 1 and y = 0 exactly and z = cos(FRAC_PI_2), a     *)
(* non-zero rounding residue, so (1,0,0) only within tolerance.            *)
C7_SphericalWithinTolerance ==
    op \in {"from_sph", "from_sph_ref"} =>
        /\ SphericalFormula
        /\ (sph.radius = 1 /\ sph.polar_angle = 0) =>
               ret = Vector3(Exact(0), Exact(0), Exact(1))
        /\ (sph.radius = 1 /\ sph.polar_angle = FRAC_PI_2 /\ sph.azimuthal_angle = 0) =>
               /\ ret.x = Exact(1)
               /\ ret.y = Exact(0)
               /\ ret.z.w = 0
               /\ ret.z.e1 \in {0 - 1, 1}

C7_Witness ==
    /\ op = "from_sph"
    /\ sph = Spherical(1, 0, FRAC_PI_2)
    /\ ret.x = Exact(1)
    /\ ret.z # Exact(0)

CylindricalFormula ==
    /\ ret.x = Mul(Exact(cyl.radius), CosOf(kind, cyl.azimuth))
    /\ ret.y = Mul(Exact(cyl.radius), SinOf(kind, cyl.azimuth))
    /\ ret.z = Exact(cyl.height)

(* C8 as claimed: x = radius*cos(azimuth), y = radius*sin(azimuth), z =    *)
(* height unchanged; radius=2, azimuth=0, height=5 gives (2,0,5) and       *)
(* radius=2, azimuth=FRAC_PI_2, height=5 gives exactly (0,2,5).            *)
C8_CylindricalExact ==
    op \in {"from_cyl", "from_cyl_ref"} =>
        /\ CylindricalFormula
        /\ cyl = Cylindrical(2, 0, 5) => ret = Vector3(Exact(2), Exact(0), Exact(5))
        /\ cyl = Cylindrical(2, FRAC_PI_2, 5) =>
               ret = Vector3(Exact(0), Exact(2), Exact(5))

(* C8 amended: the formulas hold and height passes through unchanged;      *)
(* radius=2, azimuth=0, height=5 gives exactly (2,0,5); radius=2,          *)
(* azimuth=FRAC_PI_2, height=5 gives y = 2 and z = 5 exactly and           *)
(* x = 2*cos(FRAC_PI_2), a non-zero rounding residue, so (0,2,5) only      *)
(* within tolerance.                                                       *)
C8_CylindricalWithinTolerance ==
    op \in {"from_cyl", "from_cyl_ref"} =>
        /\ CylindricalFormula
        /\ cyl = Cylindrical(2, 0, 5) => ret = Vector3(Exact(2), Exact(0), Exact(5))
        /\ cyl = Cylindrical(2, FRAC_PI_2, 5) =>
               /\ ret.x.w = 0
               /\ ret.x.e1 \in {0 - 2, 2}
               /\ ret.y = Exact(2)
               /\ ret.z = Exact(5)

C8_Witness ==
    /\ op = "from_cyl"
    /\ cyl = Cylindrical(2, FRAC_PI_2, 5)
    /\ ret.x # Exact(0)
    /\ ret.z = Exact(5)

(* C9: adding a vector to its negation gives ORIGIN: a + (-a) = (0,0,0). *)
C9_AddNegIsOrigin == op = "neg" => add(self, ret) = ORIGIN

C9_Witness == op = "neg" /\ self = Vector3(1, 0 - 1, 1) /\ ret = Vector3(0 - 1, 1, 0 - 1)

UnitConsts == {UP, DOWN, FORWARD, BACK, LEFT, RIGHT}

(* C10: for f32 and f64 the seven constants are ORIGIN=(0,0,0), UP=(0,0,1), *)
(* DOWN=(0,0,-1), FORWARD=(0,1,0), BACK=(0,-1,0), LEFT=(-1,0,0),            *)
(* RIGHT=(1,0,0); they are pairwise distinct, quick_magnitude(ORIGIN) is 0  *)
(* and quick_magnitude of each of the other six is exactly 1.               *)
C10_NamedConstants ==
    /\ \A var \in Kinds :
           impl_3d(var) =
               [ORIGIN |-> Vector3(0, 0, 0), UP |-> Vector3(0, 0, 1),
                DOWN |-> Vector3(0, 0, 0 - 1), FORWARD |-> Vector3(0, 1, 0),
                BACK |-> Vector3(0, 0 - 1, 0), LEFT |-> Vector3(0 - 1, 0, 0),
                RIGHT |-> Vector3(1, 0, 0)]
    /\ Cardinality(UnitConsts \cup {ORIGIN}) = 7
    /\ op = "quick_magnitude" =>
           /\ self = ORIGIN => ret = 0
           /\ self \in UnitConsts => ret = 1

C10_Witness == op = "quick_magnitude" /\ self = DOWN /\ ret = 1

====
